---- MODULE Spec2Model ----
(***************************************************************************)
(* The meeting tools of day2/q2/mcp-agent-python: create_meeting,          *)
(* find_optimal_slots (with check_user_availability and                    *)
(* generate_slot_reasoning) and detect_scheduling_conflicts (with          *)
(* generate_conflict_insights), over the users and meetings collections    *)
(* the tools load from data/users.json and data/meetings.json.             *)
(*                                                                         *)
(* Time.  A naive datetime is the number of minutes since 00:00 of day 0;  *)
(* day 0 is a Friday.  An ISO string is identified with the datetime it    *)
(* parses to; every timestamp of the model is naive, which is what         *)
(* create_meeting writes for a start_time without a UTC offset.            *)
(*                                                                         *)
(* Two specifications.  Spec: the tool calls of one request, executed one  *)
(* after another, about users whose records are whole.  SpecThreaded: the  *)
(* requests of the threaded HTTP bridge, where the steps of create_meeting *)
(* (load, open for writing, dump) interleave with each other and with the  *)
(* calls that read the file; its calls also name a user whose record lacks *)
(* its work hours and ask for meetings that last into the next day.        *)
(*                                                                         *)
(* Three smaller parts of the repository, each with its own variables and  *)
(* specification.  SpecStorage: DocumentStorage of day2/q1 (add, update,   *)
(* delete on storage/documents.json).  SpecDiscord: the two Discord MCP    *)
(* servers of day3 (the ready event, the waits of 30 seconds on it, the    *)
(* tool calls).  SpecRag: the documents table of the day4_rag/q3 backend   *)
(* (insert_documents, vectorize_documents).                                *)
(***************************************************************************)
EXTENDS Integers, Sequences, FiniteSets, TLC

\* ------------------------------------------------------------------ bounds
MaxMeetings == 2      \* meetings the collection may hold
MaxDay == 2           \* dates of a date range are days 0..MaxDay

\* ------------------------------------------------- constants of the program
TopN == 5                  \* optimal_slots[:5]
FirstHour == 9             \* range(9, 17)
EndHour == 17              \* range(9, 17)
SkipAfterHour == 17        \* if slot_end.hour > 17
PenaltyUnavailable == 10   \* conflict_score += 10
PenaltyOutsideHours == 5   \* conflict_score += 5
DiscardThreshold == 10     \* if conflict_score < 10

VARIABLES
    users,      \* the list data/users.json holds
    meetings,   \* the list data/meetings.json holds; <<>> while it is not intact
    intact,     \* whether the bytes of data/meetings.json are a complete JSON document
    creating,   \* per thread, the create_meeting call it is in and the call's locals
    call,       \* the find/detect/create call whose value is in result
    result,     \* the value of that call
    storage,        \* day2/q1: what storage/documents.json holds
    storage_call,   \* day2/q1: the last DocumentStorage call and what it returned
    documents_db,   \* day4_rag/q3: the rows of table documents in data/documents.db
    vectorstore,    \* day4_rag/q3: the doc_ids of the chunks saved in faiss_vectorstore
    rag_call,       \* day4_rag/q3: the last call on the table, its arguments and locals
    discord_server, \* day3: which server program runs: mcp_server.py or the FastMCP one
    discord_client, \* day3: the discord.Client: idle, connecting, connected, failed, cancelled
    discord_ready,  \* day3: the asyncio.Event set by on_ready
    run_pc,         \* day3: where DiscordMCPServer.run is, and the deadline of its wait
    now,            \* day3: the event loop's clock, in seconds
    tool_calls      \* day3: per request slot, the tool call in it
scheduler_vars == <<users, meetings, intact, creating, call, result>>
storage_vars == <<storage, storage_call>>
rag_vars == <<documents_db, vectorstore, rag_call>>
discord_vars == <<discord_server, discord_client, discord_ready, run_pc, now, tool_calls>>
vars == <<scheduler_vars, storage_vars, rag_vars, discord_vars>>
\* what the meeting tools, the document storage and the ticketing backend
\* have no access to
outside_scheduler == <<storage_vars, rag_vars, discord_vars>>
outside_storage == <<scheduler_vars, rag_vars, discord_vars>>
outside_rag == <<scheduler_vars, storage_vars, discord_vars>>
outside_discord == <<scheduler_vars, storage_vars, rag_vars>>

\* ----------------------------------------------------------- datetime, str
DateOf(t) == t \div 1440                 \* datetime.date()
TimeOfDay(t) == t % 1440                 \* datetime.time(), in minutes
HourOf(t) == (t % 1440) \div 60          \* datetime.hour
Weekday(d) == (d + 4) % 7                \* date.weekday(): Monday = 0; day 0 is a Friday
At(d, h, m) == d * 1440 + h * 60 + m     \* datetime(d).replace(hour=h, minute=m)

\* str.lower() on the names and ids of the model
Lower(s) ==
    CASE s = "Alice" -> "alice"
      [] s = "Bob" -> "bob"
      [] s = "Zed" -> "zed"
      [] s = "Carol" -> "carol"
      [] OTHER -> s

\* datetime.strptime(s, '%H:%M').time(), in minutes
ParseHM(s) ==
    CASE s = "09:00" -> 540
      [] s = "13:00" -> 780
      [] s = "17:00" -> 1020

\* x in list
In(x, list) == \E i \in 1..Len(list) : list[i] = x

\* The interval overlap test both tools use on (start, end) pairs.
Overlaps(s1, e1, s2, e2) == s1 < e2 /\ e1 > s2

Max2(a, b) == IF a >= b THEN a ELSE b
Min2(a, b) == IF a <= b THEN a ELSE b

None == "None"        \* Python's None: user.get('id') of a record without 'id'
NoResult == [tool |-> "none"]
NoCall == [tool |-> "none"]

\* An exception on its way out of a function.
Raise(exception) == [tool |-> "exception", exception |-> exception]

\* -------------------------------------------------------------- the data
\* data/users.json
Alice == [id |-> "u1", name |-> "Alice", timezone |-> "UTC",
          work_hours |-> <<"09:00", "17:00">>]
Bob == [id |-> "u2", name |-> "Bob", timezone |-> "UTC",
        work_hours |-> <<"13:00", "17:00">>]
\* a record without the key 'work_hours'
Carol == [id |-> "u3", name |-> "Carol", timezone |-> "UTC"]
UsersFile == <<Alice, Bob, Carol>>

\* ------------------------------------------------------- create_meeting
CreateTitles == {"Sync"}
CreateParticipants == {<<"Alice">>, <<"u1">>}
CreateDurations == {0, 60}
CreateStarts == {At(0, 7, 0), At(0, 10, 0), At(0, 10, 30), At(0, 23, 0)}

\* The record create_meeting appends.  The id is "m" + a uuid4 prefix, taken
\* fresh: the model numbers the meetings in the order of their creation.
new_meeting(ms, title, participants, duration, start_time) ==
    [id |-> Len(ms) + 1,
     title |-> title,
     participants |-> participants,
     start |-> start_time,
     end |-> start_time + duration]

\* The whole call, uninterrupted.
create_meeting(title, participants, duration, start_time) ==
    /\ result = NoResult
    /\ intact
    /\ Len(meetings) < MaxMeetings
    /\ meetings' = Append(meetings,
                          new_meeting(meetings, title, participants, duration, start_time))
    /\ call' = [tool |-> "create_meeting", title |-> title, participants |-> participants,
                duration |-> duration, start_time |-> start_time]
    /\ result' = [tool |-> "create_meeting",
                  message |-> [title |-> title, start |-> start_time,
                               end |-> start_time + duration,
                               participants |-> participants]]
    /\ UNCHANGED <<users, intact, creating>>
    /\ UNCHANGED outside_scheduler

\* The call in steps, in thread c of the bridge.
Threads == {"t1", "t2"}
Idle == [pc |-> "idle"]

\* with open('data/meetings.json', 'r') as f: meetings = json.load(f); then the
\* new record is appended to the local list.  json.load raises on a file that
\* is not a complete document, and create_meeting has no handler.
create_load(c, title, participants, duration, start_time) ==
    /\ creating[c] = Idle
    /\ Len(meetings) < MaxMeetings
    /\ creating' = [creating EXCEPT ![c] =
                      IF intact
                      THEN [pc |-> "loaded", base |-> meetings,
                            new |-> new_meeting(meetings, title, participants,
                                                duration, start_time)]
                      ELSE [pc |-> "raised", exception |-> "JSONDecodeError"]]
    /\ UNCHANGED <<users, meetings, intact, call, result>>
    /\ UNCHANGED outside_scheduler

\* open('data/meetings.json', 'w'): the file is truncated.
create_open(c) ==
    /\ creating[c].pc = "loaded"
    /\ meetings' = <<>>
    /\ intact' = FALSE
    /\ creating' = [d \in Threads |->
                      IF d = c
                      THEN [pc |-> "opened", base |-> creating[c].base,
                            new |-> creating[c].new, under |-> FALSE]
                      ELSE IF creating[d].pc = "opened"
                      THEN [creating[d] EXCEPT !.under = FALSE]
                      ELSE creating[d]]
    /\ UNCHANGED <<users, call, result>>
    /\ UNCHANGED outside_scheduler

\* json.dump(meetings, f, indent=2) and the close of the file.  Each writer
\* writes from its own offset 0: when another writer has dumped since this one
\* opened the file (under), bytes of that dump may be left after this one's.
create_dump(c) ==
    /\ creating[c].pc = "opened"
    /\ \E whole \in (IF creating[c].under THEN {TRUE, FALSE} ELSE {TRUE}) :
          /\ intact' = whole
          /\ meetings' = IF whole THEN Append(creating[c].base, creating[c].new) ELSE <<>>
    /\ creating' = [d \in Threads |->
                      IF d = c
                      THEN [pc |-> "returned", new |-> creating[c].new]
                      ELSE IF creating[d].pc = "opened"
                      THEN [creating[d] EXCEPT !.under = TRUE]
                      ELSE creating[d]]
    /\ UNCHANGED <<users, call, result>>
    /\ UNCHANGED outside_scheduler

\* The message, or the exception, reaches the caller.
create_return(c) ==
    /\ creating[c].pc \in {"returned", "raised"}
    /\ creating' = [creating EXCEPT ![c] = Idle]
    /\ UNCHANGED <<users, meetings, intact, call, result>>
    /\ UNCHANGED outside_scheduler

\* ---------------------------------------------- check_user_availability
RECURSIVE availability_conflicts(_, _, _, _, _)
availability_conflicts(user, start, end, ms, k) ==
    IF k > Len(ms) THEN <<>>
    ELSE LET meeting == ms[k]
             named == In(user.name, meeting.participants)
                      \/ In(user.id, meeting.participants)
             hit == named /\ Overlaps(start, end, meeting.start, meeting.end)
         IN  (IF hit
              THEN <<[meeting_id |-> meeting.id,
                      meeting_title |-> meeting.title,
                      meeting_time |-> <<meeting.start, meeting.end>>]>>
              ELSE <<>>)
             \o availability_conflicts(user, start, end, ms, k + 1)

InWorkHours(user, start, end) ==
    LET work_start == ParseHM(user.work_hours[1])
        work_end == ParseHM(user.work_hours[2])
    IN  TimeOfDay(start) >= work_start /\ TimeOfDay(end) <= work_end

\* user['work_hours'][0]: a record without the key raises KeyError
check_user_availability_raises(user) == "work_hours" \notin DOMAIN user

check_user_availability(user, start, end, ms) ==
    LET conflicts == availability_conflicts(user, start, end, ms, 1)
    IN  [available |-> Len(conflicts) = 0,
         in_work_hours |-> InWorkHours(user, start, end),
         conflicts |-> conflicts]

\* ----------------------------------------------------- find_optimal_slots
\* next((u for u in users if u['name'].lower() == participant.lower()), None),
\* or the temporary user of an unknown participant
ResolveParticipant(us, participant) ==
    LET found == {i \in 1..Len(us) : Lower(us[i].name) = Lower(participant)}
    IN  IF found # {}
        THEN us[CHOOSE i \in found : \A j \in found : i <= j]
        ELSE [id |-> None, name |-> participant, timezone |-> "UTC",
              work_hours |-> <<"09:00", "17:00">>]

\* the participants that match no user left out
participant_users_known_only(us, participants) ==
    LET known == SelectSeq(participants,
                           LAMBDA p : \E i \in 1..Len(us) : Lower(us[i].name) = Lower(p))
    IN  [i \in 1..Len(known) |-> ResolveParticipant(us, known[i])]

participant_users(us, participants) ==
    [i \in 1..Len(participants) |-> ResolveParticipant(us, participants[i])]

RECURSIVE participant_meetings(_, _, _)
participant_meetings(ms, participants, k) ==
    IF k > Len(ms) THEN <<>>
    ELSE (IF \E i \in 1..Len(participants) : In(participants[i], ms[k].participants)
          THEN <<ms[k]>> ELSE <<>>)
         \o participant_meetings(ms, participants, k + 1)

availability_details(pusers, slot_start, slot_end, pmeetings) ==
    [i \in 1..Len(pusers) |->
        LET a == check_user_availability(pusers[i], slot_start, slot_end, pmeetings)
        IN  [user |-> pusers[i].name,
             available |-> a.available,
             conflicts |-> a.conflicts,
             in_work_hours |-> a.in_work_hours]]

RECURSIVE SumScore(_, _)
SumScore(details, k) ==
    IF k > Len(details) THEN 0
    ELSE (IF ~details[k].available THEN PenaltyUnavailable ELSE 0)
         + (IF ~details[k].in_work_hours THEN PenaltyOutsideHours ELSE 0)
         + SumScore(details, k + 1)

\* conflict_score with the work-hour penalty left out
conflict_score_unavailable_only(details) ==
    PenaltyUnavailable * Cardinality({k \in 1..Len(details) : ~details[k].available})

conflict_score(details) == SumScore(details, 1)

\* if slot_end.hour > 17: continue
SkipSlot(slot_end) == HourOf(slot_end) > SkipAfterHour

\* the weekday test off by one: Saturday passes
IsWeekday_through_saturday(current_date) == Weekday(current_date) < 6

\* if current_date.weekday() < 5
IsWeekday(current_date) == Weekday(current_date) < 5

\* if conflict_score < 10: optimal_slots.append(...)
KeepSlot(slot) == slot.score < DiscardThreshold

\* The slots the inner loop scores on one date, from `hour` on, in loop order.
RECURSIVE HourLoop(_, _, _, _, _)
HourLoop(current_date, hour, duration, pusers, pmeetings) ==
    IF hour >= EndHour THEN <<>>
    ELSE LET slot_start == At(current_date, hour, 0)
             slot_end == slot_start + duration
             details == availability_details(pusers, slot_start, slot_end, pmeetings)
         IN  (IF SkipSlot(slot_end) THEN <<>>
              ELSE <<[start |-> slot_start,
                      end |-> slot_end,
                      score |-> conflict_score(details),
                      availability_details |-> details]>>)
             \o HourLoop(current_date, hour + 1, duration, pusers, pmeetings)

\* while current_date <= end_date: every slot the loops score, in loop order.
RECURSIVE DateLoop(_, _, _, _, _)
DateLoop(current_date, end_date, duration, pusers, pmeetings) ==
    IF current_date > end_date THEN <<>>
    ELSE (IF IsWeekday(current_date)
          THEN HourLoop(current_date, FirstHour, duration, pusers, pmeetings)
          ELSE <<>>)
         \o DateLoop(current_date + 1, end_date, duration, pusers, pmeetings)

RECURSIVE Filter(_, _)
Filter(scored, k) ==
    IF k > Len(scored) THEN <<>>
    ELSE (IF KeepSlot(scored[k]) THEN <<scored[k]>> ELSE <<>>) \o Filter(scored, k + 1)

\* list.sort(key=lambda x: x['score']): stable, ascending
\* an unstable sort: a slot goes before the sorted slots of its score
RECURSIVE InsertByScore_before_ties(_, _)
InsertByScore_before_ties(sorted, slot) ==
    IF sorted = <<>> THEN <<slot>>
    ELSE IF Head(sorted).score < slot.score
         THEN <<Head(sorted)>> \o InsertByScore_before_ties(Tail(sorted), slot)
         ELSE <<slot>> \o sorted

RECURSIVE InsertByScore(_, _)
InsertByScore(sorted, slot) ==
    IF sorted = <<>> THEN <<slot>>
    ELSE IF Head(sorted).score <= slot.score
         THEN <<Head(sorted)>> \o InsertByScore(Tail(sorted), slot)
         ELSE <<slot>> \o sorted

RECURSIVE SortPrefix(_, _)
SortPrefix(slots, n) ==
    IF n = 0 THEN <<>> ELSE InsertByScore(SortPrefix(slots, n - 1), slots[n])

\* the sort left out: slots stay in discovery order
SortByScore_discovery_order(slots) == slots

SortByScore(slots) == SortPrefix(slots, Len(slots))

\* optimal_slots[:5]
Top(slots) == SubSeq(slots, 1, Min2(TopN, Len(slots)))

\* len([d for d in details if d['available']])
available_count(details) == Cardinality({i \in 1..Len(details) : details[i].available})
\* len([d for d in details if d['in_work_hours']])
work_hours_count(details) == Cardinality({i \in 1..Len(details) : details[i].in_work_hours})

\* The f-string of generate_slot_reasoning: which sentence, and the counts in it.
generate_slot_reasoning(slot) ==
    LET details == slot.availability_details
        available == available_count(details)
        in_hours == work_hours_count(details)
    IN  IF slot.score = 0
        THEN [text |-> "Perfect slot", available |-> available,
              of |-> available, in_work_hours |-> in_hours]
        ELSE IF available = Len(details)
        THEN [text |-> "Good slot", available |-> available,
              of |-> Len(details), in_work_hours |-> in_hours]
        ELSE [text |-> "Suboptimal", available |-> available,
              of |-> Len(details), in_work_hours |-> in_hours]

recommendations(top_slots, participants) ==
    [i \in 1..Len(top_slots) |->
        [rank |-> i,
         start |-> top_slots[i].start,
         end |-> top_slots[i].end,
         confidence |-> IF top_slots[i].score = 0 THEN "High" ELSE "Medium",
         reasoning |-> generate_slot_reasoning(top_slots[i]),
         participants_available |-> available_count(top_slots[i].availability_details),
         total_participants |-> Len(participants)]]

\* The value find_optimal_slots returns.  Besides the keys of the returned dict
\* the record keeps three locals of the call: scored (every slot the loops
\* scored), optimal_slots (after the sort) and top_slots.
find_optimal_slots_result(us, ms, participants, duration, start_date, end_date) ==
    LET pusers == participant_users(us, participants)
        pmeetings == participant_meetings(ms, participants, 1)
        scored == DateLoop(start_date, end_date, duration, pusers, pmeetings)
        optimal_slots == SortByScore(Filter(scored, 1))
        top_slots == Top(optimal_slots)
        criteria == [participants |-> participants, duration |-> duration,
                     date_range |-> <<start_date, end_date>>]
    IN  IF Len(pusers) = 0
        THEN [tool |-> "find_optimal_slots", success |-> "absent",
              error |-> "No valid participants found",
              recommendations |-> <<>>, search_criteria |-> criteria,
              scored |-> <<>>, optimal_slots |-> <<>>, top_slots |-> <<>>]
        ELSE [tool |-> "find_optimal_slots", success |-> "true",
              error |-> "",
              recommendations |-> recommendations(top_slots, participants),
              search_criteria |-> criteria,
              scored |-> scored, optimal_slots |-> optimal_slots,
              top_slots |-> top_slots]

\* A date_range string: "<start> to <end>" of two dates, or a string that
\* date_range.split(' to ') does not cut in two.
DateRange(start_date, end_date) ==
    [parses |-> TRUE, start |-> start_date, end |-> end_date]
MalformedRange == [parses |-> FALSE, start |-> 0, end |-> 0]

\* Whether the loops reach the scoring of a slot: a weekday of the range and
\* an hour whose slot is not skipped.
SlotReached(start_date, end_date, duration) ==
    \E d \in start_date..end_date :
        /\ IsWeekday(d)
        /\ \E hour \in FirstHour..(EndHour - 1) : ~SkipSlot(At(d, hour, 0) + duration)

\* The text str(e) of the exceptions of the model after the prefix of the tool.
ErrorText(prefix, exception) ==
    CASE prefix = "find" /\ exception = "JSONDecodeError"
             -> "Error finding optimal slots: Expecting value"
      [] prefix = "find" /\ exception = "ValueError"
             -> "Error finding optimal slots: not enough values to unpack"
      [] prefix = "find" /\ exception = "KeyError"
             -> "Error finding optimal slots: 'work_hours'"
      [] prefix = "detect" /\ exception = "JSONDecodeError"
             -> "Error detecting conflicts: Expecting value"
      [] prefix = "detect" /\ exception = "ValueError"
             -> "Error detecting conflicts: Invalid isoformat string"
      [] prefix = "detect" /\ exception = "KeyError"
             -> "Error detecting conflicts: 'work_hours'"

\* The body of the try statement: what it returns, or the exception it raises.
\* readable: json.load of data/meetings.json succeeds.
find_optimal_slots_try(us, ms, readable, participants, duration, date_range) ==
    IF ~readable THEN Raise("JSONDecodeError")
    ELSE IF ~date_range.parses THEN Raise("ValueError")
    ELSE IF /\ \E i \in 1..Len(participants) :
                  check_user_availability_raises(ResolveParticipant(us, participants[i]))
            /\ SlotReached(date_range.start, date_range.end, duration)
    THEN Raise("KeyError")
    ELSE find_optimal_slots_result(us, ms, participants, duration,
                                   date_range.start, date_range.end)

\* no handler: the exception leaves the function
find_optimal_slots_reraise(outcome, participants, duration) == outcome

\* except Exception as e: return {'success': False, 'error': ...}
find_optimal_slots_except(outcome, participants, duration) ==
    IF outcome.tool = "exception"
    THEN [tool |-> "find_optimal_slots", success |-> "false",
          error |-> ErrorText("find", outcome.exception),
          recommendations |-> <<>>,
          search_criteria |-> [participants |-> participants, duration |-> duration,
                               date_range |-> <<>>],
          scored |-> <<>>, optimal_slots |-> <<>>, top_slots |-> <<>>]
    ELSE outcome

FindParticipants == {<<>>, <<"Alice">>, <<"alice">>, <<"Alice", "Bob">>, <<"Zed">>,
                     <<"Alice", "Zed">>}
FindDurations == {30, 90}
FindDateRanges == {DateRange(start_date, end_date) :
                       start_date \in 0..MaxDay, end_date \in 0..MaxDay}
                  \cup {MalformedRange}

\* the meetings of the participants written back over the file
find_optimal_slots_saving(participants, duration, date_range) ==
    /\ result = NoResult
    /\ call' = [tool |-> "find_optimal_slots", participants |-> participants,
                duration |-> duration, date_range |-> date_range]
    /\ result' = find_optimal_slots_except(
                      find_optimal_slots_try(users, meetings, intact, participants,
                                             duration, date_range),
                      participants, duration)
    /\ meetings' = participant_meetings(meetings, participants, 1)
    /\ UNCHANGED <<users, intact, creating>>
    /\ UNCHANGED outside_scheduler

find_optimal_slots(participants, duration, date_range) ==
    /\ result = NoResult
    /\ call' = [tool |-> "find_optimal_slots", participants |-> participants,
                duration |-> duration, date_range |-> date_range]
    /\ result' = find_optimal_slots_except(
                      find_optimal_slots_try(users, meetings, intact, participants,
                                             duration, date_range),
                      participants, duration)
    /\ UNCHANGED <<users, meetings, intact, creating>>
    /\ UNCHANGED outside_scheduler

\* ------------------------------------------ detect_scheduling_conflicts
\* for u in users: if u['id'] == user_id or u['name'].lower() == user_id.lower()
\* The index of the first such user, 0 when there is none.
RECURSIVE FindUser(_, _, _)
FindUser(us, user_id, k) ==
    IF k > Len(us) THEN 0
    ELSE IF us[k].id = user_id \/ Lower(us[k].name) = Lower(user_id) THEN k
    ELSE FindUser(us, user_id, k + 1)

\* The user's meetings that overlap the time range, in file order.
RECURSIVE user_meetings(_, _, _, _, _)
user_meetings(user, ms, check_start, check_end, k) ==
    IF k > Len(ms) THEN <<>>
    ELSE LET meeting == ms[k]
             named == In(user.id, meeting.participants)
                      \/ In(user.name, meeting.participants)
             hit == named /\ Overlaps(meeting.start, meeting.end, check_start, check_end)
         IN  (IF hit
              THEN <<[meeting_id |-> meeting.id,
                      title |-> meeting.title,
                      start |-> meeting.start,
                      end |-> meeting.end,
                      participants |-> meeting.participants,
                      overlap_start |-> Max2(check_start, meeting.start),
                      overlap_end |-> Min2(check_end, meeting.end)]>>
              ELSE <<>>)
             \o user_meetings(user, ms, check_start, check_end, k + 1)

\* for i, meeting1 in enumerate(user_meetings):
\*     for j, meeting2 in enumerate(user_meetings[i+1:], i+1):
\* with i and j counted from 1; the conflicts appended from pair (i, j) on.
RECURSIVE PairLoop(_, _, _)
PairLoop(um, i, j) ==
    IF i > Len(um) THEN <<>>
    ELSE IF j > Len(um) THEN PairLoop(um, i + 1, i + 2)
    ELSE LET m1 == um[i]
             m2 == um[j]
             overlap_start == Max2(m1.start, m2.start)
             overlap_end == Min2(m1.end, m2.end)
         IN  (IF Overlaps(m1.start, m1.end, m2.start, m2.end)
              THEN <<[type |-> "overlapping_meetings",
                      severity |-> "high",
                      meeting1 |-> [id |-> m1.meeting_id, title |-> m1.title,
                                    time |-> <<m1.start, m1.end>>],
                      meeting2 |-> [id |-> m2.meeting_id, title |-> m2.title,
                                    time |-> <<m2.start, m2.end>>],
                      overlap_duration_minutes |-> overlap_end - overlap_start,
                      overlap_time |-> <<overlap_start, overlap_end>>]>>
              ELSE <<>>)
             \o PairLoop(um, i, j + 1)

\* the inner loop started at the meeting itself instead of the one after it
overlapping_conflicts_from_self(um) == PairLoop(um, 1, 1)

overlapping_conflicts(um) == PairLoop(um, 1, 2)

\* if meeting_start.time() < work_start or meeting_end.time() > work_end
OutsideWorkHours(user, meeting) ==
    LET work_start == ParseHM(user.work_hours[1])
        work_end == ParseHM(user.work_hours[2])
    IN  TimeOfDay(meeting.start) < work_start \/ TimeOfDay(meeting.end) > work_end

RECURSIVE work_hours_conflicts(_, _, _)
work_hours_conflicts(user, um, k) ==
    IF k > Len(um) THEN <<>>
    ELSE (IF OutsideWorkHours(user, um[k])
          THEN <<[type |-> "outside_work_hours",
                  severity |-> "medium",
                  meeting |-> [id |-> um[k].meeting_id, title |-> um[k].title,
                               time |-> <<um[k].start, um[k].end>>],
                  work_hours |-> user.work_hours,
                  issue |-> "Meeting scheduled outside work hours"]>>
          ELSE <<>>)
         \o work_hours_conflicts(user, um, k + 1)

RECURSIVE total_meeting_time(_, _)
total_meeting_time(um, k) ==
    IF k > Len(um) THEN 0
    ELSE (um[k].end - um[k].start) + total_meeting_time(um, k + 1)

\* round(n / d, 0) for d > 0: to the nearest integer, a tie to the even one
RoundDiv(n, d) ==
    LET q == n \div d
        r == n % d
    IN  IF 2 * r < d THEN q
        ELSE IF 2 * r > d THEN q + 1
        ELSE IF q % 2 = 0 THEN q ELSE q + 1

\* round((total / period) * 100, 1) if period > 0 else 0, in tenths of a percent
meeting_load_percentage(total, period) ==
    IF period > 0 THEN RoundDiv(total * 1000, period) ELSE 0

\* every conflict counted, whatever its severity
SeverityCount_any(conflicts, severity) == Len(conflicts)

SeverityCount(conflicts, severity) ==
    Cardinality({i \in 1..Len(conflicts) : conflicts[i].severity = severity})

generate_conflict_insights(user, conflicts, um, start, end) ==
    LET total == total_meeting_time(um, 1)
        period == end - start
        high == SeverityCount(conflicts, "high")
        medium == SeverityCount(conflicts, "medium")
        \* the thresholds read the percentage before it is rounded
        over80 == period > 0 /\ total * 100 > 80 * period
        over60 == period > 0 /\ total * 100 > 60 * period
    IN  [meeting_load_percentage |-> meeting_load_percentage(total, period),
         total_meeting_time_minutes |-> total,
         conflict_severity |-> [high |-> high, medium |-> medium],
         recommendations |->
             (IF high > 0 THEN <<"Critical: Resolve overlapping meetings immediately">>
              ELSE <<>>)
             \o (IF medium > 0
                 THEN <<"Consider rescheduling meetings outside work hours">> ELSE <<>>)
             \o (IF over80 THEN <<"High meeting load detected">>
                 ELSE IF over60 THEN <<"Moderate meeting load">> ELSE <<>>)
             \o (IF Len(conflicts) = 0
                 THEN <<"No conflicts detected - schedule looks good!">> ELSE <<>>),
         status |-> IF high > 0 THEN "critical"
                    ELSE IF medium > 0 THEN "warning" ELSE "good"]

\* The value detect_scheduling_conflicts returns.
user_not_found(user_id) ==
    [tool |-> "detect_scheduling_conflicts", success |-> "false",
     error |-> "User not found", user_id |-> user_id]

detect_scheduling_conflicts_result(us, ms, user_id, check_start, check_end) ==
    LET found == FindUser(us, user_id, 1)
    IN  IF found = 0
        THEN user_not_found(user_id)
        ELSE LET user == us[found]
                 um == user_meetings(user, ms, check_start, check_end, 1)
                 conflicts == overlapping_conflicts(um)
                              \o work_hours_conflicts(user, um, 1)
             IN  [tool |-> "detect_scheduling_conflicts", success |-> "true",
                  user |-> user,
                  time_range |-> [start |-> check_start, end |-> check_end,
                                  duration_minutes |-> check_end - check_start],
                  meetings_in_range |-> Len(um),
                  conflicts_found |-> Len(conflicts),
                  conflicts |-> conflicts,
                  meetings |-> um,
                  insights |-> generate_conflict_insights(user, conflicts, um,
                                                          check_start, check_end)]

\* A time_range string: "<start> to <end>" of two ISO datetimes, or a string
\* that is not.
TimeRange(check_start, check_end) ==
    [parses |-> TRUE, start |-> check_start, end |-> check_end]
MalformedTimeRange == [parses |-> FALSE, start |-> 0, end |-> 0]

\* time_range parsed before the user is looked up
detect_scheduling_conflicts_try_parse_first(us, ms, readable, user_id, time_range) ==
    IF ~readable THEN Raise("JSONDecodeError")
    ELSE IF ~time_range.parses THEN Raise("ValueError")
    ELSE IF FindUser(us, user_id, 1) = 0 THEN user_not_found(user_id)
    ELSE IF "work_hours" \notin DOMAIN us[FindUser(us, user_id, 1)] THEN Raise("KeyError")
    ELSE detect_scheduling_conflicts_result(us, ms, user_id,
                                            time_range.start, time_range.end)

\* The body of the try statement: the files are loaded, the user is looked up,
\* and only then is time_range parsed.
detect_scheduling_conflicts_try(us, ms, readable, user_id, time_range) ==
    IF ~readable THEN Raise("JSONDecodeError")
    ELSE IF FindUser(us, user_id, 1) = 0 THEN user_not_found(user_id)
    ELSE IF ~time_range.parses THEN Raise("ValueError")
    ELSE IF "work_hours" \notin DOMAIN us[FindUser(us, user_id, 1)] THEN Raise("KeyError")
    ELSE detect_scheduling_conflicts_result(us, ms, user_id,
                                            time_range.start, time_range.end)

\* except Exception as e: return {'success': False, 'error': ...}
detect_scheduling_conflicts_except(outcome) ==
    IF outcome.tool = "exception"
    THEN [tool |-> "detect_scheduling_conflicts", success |-> "false",
          error |-> ErrorText("detect", outcome.exception)]
    ELSE outcome

DetectUsers == {"u1", "alice", "Zed"}
DetectTimes == {At(0, 0, 0), At(0, 10, 0), At(0, 11, 30), At(0, 23, 59)}
DetectTimeRanges == {TimeRange(check_start, check_end) :
                         check_start \in DetectTimes, check_end \in DetectTimes}
                    \cup {MalformedTimeRange}

detect_scheduling_conflicts(user_id, time_range) ==
    /\ result = NoResult
    /\ call' = [tool |-> "detect_scheduling_conflicts", user_id |-> user_id,
                time_range |-> time_range]
    /\ result' = detect_scheduling_conflicts_except(
                      detect_scheduling_conflicts_try(users, meetings, intact,
                                                      user_id, time_range))
    /\ UNCHANGED <<users, meetings, intact, creating>>
    /\ UNCHANGED outside_scheduler

\* The caller takes the returned value; the tools keep nothing between calls.
Return ==
    /\ result # NoResult
    /\ result' = NoResult
    /\ call' = NoCall
    /\ UNCHANGED <<users, meetings, intact, creating>>
    /\ UNCHANGED outside_scheduler

\* ------------------------------------- day2/q1: storage/document_storage.py
\* A document is its id and its title (the title stands for all that
\* Document.to_dict writes beside the id).  The storage file is the list of
\* documents and metadata.total_documents; metadata's timestamps are left out.
DocumentIds == {"d1", "d2", "d3"}
DocumentTitles == {"Notes", "Report"}
Documents == [id : DocumentIds, title : DocumentTitles]

\* _save_storage: total_documents is set from the list, and the whole is dumped.
_save_storage(documents) ==
    [documents |-> documents, metadata |-> [total_documents |-> Len(documents)]]

_create_empty_storage == _save_storage(<<>>)

existing_ids(storage_data) ==
    {storage_data.documents[i].id : i \in 1..Len(storage_data.documents)}

\* the first index whose document has the id (the loops return at the first match)
IndexOf(storage_data, document_id) ==
    CHOOSE i \in 1..Len(storage_data.documents) :
        /\ storage_data.documents[i].id = document_id
        /\ \A j \in 1..(i - 1) : storage_data.documents[j].id # document_id

RemoveAt(seq, i) == SubSeq(seq, 1, i - 1) \o SubSeq(seq, i + 1, Len(seq))

NoStorageCall == [op |-> "none", id |-> "none", returned |-> FALSE]

\* an add that does not look for the id
add_document_unchecked(document) ==
    /\ storage' = _save_storage(Append(storage.documents, document))
    /\ storage_call' = [op |-> "add_document", id |-> document.id, returned |-> TRUE]
    /\ UNCHANGED outside_storage

add_document(document) ==
    /\ IF document.id \in existing_ids(storage)
       THEN /\ storage' = storage
            /\ storage_call' = [op |-> "add_document", id |-> document.id,
                                returned |-> FALSE]
       ELSE /\ storage' = _save_storage(Append(storage.documents, document))
            /\ storage_call' = [op |-> "add_document", id |-> document.id,
                                returned |-> TRUE]
    /\ UNCHANGED outside_storage

update_document(document) ==
    /\ IF document.id \in existing_ids(storage)
       THEN /\ storage' = _save_storage([storage.documents EXCEPT
                                            ![IndexOf(storage, document.id)] = document])
            /\ storage_call' = [op |-> "update_document", id |-> document.id,
                                returned |-> TRUE]
       ELSE /\ storage' = storage
            /\ storage_call' = [op |-> "update_document", id |-> document.id,
                                returned |-> FALSE]
    /\ UNCHANGED outside_storage

delete_document(document_id) ==
    /\ IF document_id \in existing_ids(storage)
       THEN /\ storage' = _save_storage(RemoveAt(storage.documents,
                                                 IndexOf(storage, document_id)))
            /\ storage_call' = [op |-> "delete_document", id |-> document_id,
                                returned |-> TRUE]
       ELSE /\ storage' = storage
            /\ storage_call' = [op |-> "delete_document", id |-> document_id,
                                returned |-> FALSE]
    /\ UNCHANGED outside_storage

\* ------------------ day4_rag/q3 backend: db/document_db.py, vectorstore/vectorizer.py
MaxRows == 3          \* rows the table may hold

\* What the loaders hand to insert_documents: LangChain documents, each its
\* metadata's source (the text is of no matter to the rows' bookkeeping).
LoaderSources == {"faq.pdf", "site"}
Categories == {"billing", "technical"}
LoaderDocs == {<<>>} \cup {<<a>> : a \in LoaderSources}
                    \cup {<<a, b>> : a, b \in LoaderSources}

\* Document(source, content, category, is_vectorized = False); the primary key
\* is given by the database when the row is written.
NewRow(db, source, category) ==
    [id |-> Len(db) + 1, source |-> source, category |-> category,
     is_vectorized |-> FALSE]

\* session.commit(): the objects added to the session are written as rows, and
\* the changed attributes of the objects the session holds are written to
\* their rows.  added is a sequence of records [source, category]; dirty is
\* the set of ids, among the objects of the session, set to vectorized.
commit(db, added, dirty) ==
    LET updated == [i \in 1..Len(db) |->
                       IF db[i].id \in dirty
                       THEN [db[i] EXCEPT !.is_vectorized = TRUE] ELSE db[i]]
        Rows[n \in 0..Len(added)] ==
            IF n = 0 THEN updated
            ELSE Append(Rows[n - 1],
                        NewRow(Rows[n - 1], added[n].source, added[n].category))
    IN  Rows[Len(added)]

NoRagCall == [op |-> "none", docs |-> <<>>, raw_docs |-> {}, printed |-> "none"]

\* insert_documents: the loop binds new_doc to a Document for each element and
\* adds none; session.add(new_doc), after the loop, adds the last one bound.
\* With no element new_doc is unbound: the NameError is caught, the session
\* rolled back and the error printed.
insert_documents(docs, category) ==
    /\ Len(documents_db) < MaxRows
    /\ IF docs = <<>>
       THEN /\ documents_db' = documents_db
            /\ rag_call' = [op |-> "insert_documents", docs |-> docs, raw_docs |-> {},
                            printed |-> "Error inserting documents"]
       ELSE /\ documents_db' = commit(documents_db,
                                      <<[source |-> docs[Len(docs)],
                                         category |-> category]>>, {})
            /\ rag_call' = [op |-> "insert_documents", docs |-> docs, raw_docs |-> {},
                            printed |-> "Inserted"]
    /\ UNCHANGED vectorstore
    /\ UNCHANGED outside_rag

\* get_unvectorized_documents: the rows with is_vectorized == False, read in a
\* session of its own that it closes before it returns: the objects returned
\* belong to no session.
get_unvectorized_documents(db) ==
    {db[i].id : i \in {n \in 1..Len(db) : ~db[n].is_vectorized}}

\* the objects the session opened by vectorize_documents (line 54) holds: it
\* runs no query and is given no object
session_objects == {}

\* vectorize_documents.  embedded: whether the embedding service answered
\* FAISS.from_documents; when it did not the exception is caught, the session
\* rolled back and the function returns.  When it did, is_vectorized is set
\* on each object of raw_docs and session.commit() is called after each.
vectorize_documents(embedded) ==
    /\ LET raw_docs == get_unvectorized_documents(documents_db)
       IN  IF raw_docs = {}
           THEN /\ rag_call' = [op |-> "vectorize_documents", docs |-> <<>>,
                                raw_docs |-> raw_docs,
                                printed |-> "No unvectorized documents found"]
                /\ UNCHANGED <<documents_db, vectorstore>>
           ELSE IF ~embedded
           THEN /\ rag_call' = [op |-> "vectorize_documents", docs |-> <<>>,
                                raw_docs |-> raw_docs,
                                printed |-> "Error during vectorization"]
                /\ UNCHANGED <<documents_db, vectorstore>>
           ELSE /\ vectorstore' = raw_docs
                /\ documents_db' = commit(documents_db, <<>>,
                                          raw_docs \cap session_objects)
                /\ rag_call' = [op |-> "vectorize_documents", docs |-> <<>>,
                                raw_docs |-> raw_docs,
                                printed |-> "Vectorstore saved successfully"]
    /\ UNCHANGED outside_rag

\* -------- day3/Discord_MCP_Server: mcp_server.py and fastmcp_discord_server.py
ReadyTimeout == 30    \* asyncio.wait_for(..., timeout=30.0)
MaxTime == 60         \* the clock stops here
TickSeconds == 15     \* the clock advances by this much

Slots == {"r1", "r2"}
ToolNames == {"send_message", "get_messages", "get_channel_info", "list_channels"}
TimeoutText == "Discord client not ready (timeout)"

NoToolCall == [pc |-> "none", name |-> "none", deadline |-> 0, ran |-> FALSE,
               text |-> "none", isError |-> FALSE]

\* whether the server reads tool calls: mcp_server.py starts its MCP server
\* when run has seen the ready event; FastMCP's mcp.run() serves at once
Serving ==
    \/ discord_server = "mcp_server" /\ run_pc.pc = "serving"
    \/ discord_server = "fastmcp"

\* DiscordMCPServer.run up to its wait: the client is started in a task and
\* run waits for the ready event, for ReadyTimeout seconds.
run ==
    /\ discord_server = "none"
    /\ discord_server' = "mcp_server"
    /\ discord_client' = "connecting"
    /\ run_pc' = [pc |-> "waiting", deadline |-> now + ReadyTimeout]
    /\ UNCHANGED <<discord_ready, now, tool_calls>>
    /\ UNCHANGED outside_discord

\* run's wait returns: the MCP server is started.
run_ready ==
    /\ run_pc.pc = "waiting"
    /\ discord_ready
    /\ run_pc' = [run_pc EXCEPT !.pc = "serving"]
    /\ UNCHANGED <<discord_server, discord_client, discord_ready, now, tool_calls>>
    /\ UNCHANGED outside_discord

\* run's wait times out: the client's task is cancelled and run returns.
run_timeout ==
    /\ run_pc.pc = "waiting"
    /\ now >= run_pc.deadline
    /\ run_pc' = [run_pc EXCEPT !.pc = "returned"]
    /\ discord_client' = "cancelled"
    /\ UNCHANGED <<discord_server, discord_ready, now, tool_calls>>
    /\ UNCHANGED outside_discord

\* fastmcp_discord_server.main: mcp.run(); the client is not started yet.
fastmcp_main ==
    /\ discord_server = "none"
    /\ discord_server' = "fastmcp"
    /\ UNCHANGED <<discord_client, discord_ready, run_pc, now, tool_calls>>
    /\ UNCHANGED outside_discord

\* on_ready, dispatched by the client when it has connected.
on_ready ==
    /\ discord_client = "connecting"
    /\ discord_client' = "connected"
    /\ discord_ready' = TRUE
    /\ UNCHANGED <<discord_server, run_pc, now, tool_calls>>
    /\ UNCHANGED outside_discord

\* client.start raises (discord.LoginFailure, a network error): no on_ready.
start_fails ==
    /\ discord_client = "connecting"
    /\ discord_client' = "failed"
    /\ UNCHANGED <<discord_server, discord_ready, run_pc, now, tool_calls>>
    /\ UNCHANGED outside_discord

\* a tool call that does not look at the ready event
call_tool_unguarded(r, name) ==
    /\ Serving
    /\ tool_calls[r].pc = "none"
    /\ discord_client' = IF discord_server = "fastmcp" /\ discord_client = "idle"
                         THEN "connecting" ELSE discord_client
    /\ tool_calls' = [tool_calls EXCEPT ![r] =
                         [NoToolCall EXCEPT !.pc = "executing", !.name = name,
                                            !.ran = TRUE]]
    /\ UNCHANGED <<discord_server, discord_ready, run_pc, now>>
    /\ UNCHANGED outside_discord

\* A tool call arrives.  mcp_server.call_tool: when the event is not set it
\* waits for it, for ReadyTimeout seconds; when it is, it awaits the tool.
\* The FastMCP tools reach DiscordClient.ensure_ready before anything else of
\* Discord: it starts the client when no call has, and waits likewise.
call_tool(r, name) ==
    /\ Serving
    /\ tool_calls[r].pc = "none"
    /\ discord_client' = IF discord_server = "fastmcp" /\ discord_client = "idle"
                         THEN "connecting" ELSE discord_client
    /\ tool_calls' = [tool_calls EXCEPT ![r] =
                         IF discord_ready
                         THEN [NoToolCall EXCEPT !.pc = "executing", !.name = name,
                                                 !.ran = TRUE]
                         ELSE [NoToolCall EXCEPT !.pc = "waiting", !.name = name,
                                                 !.deadline = now + ReadyTimeout]]
    /\ UNCHANGED <<discord_server, discord_ready, run_pc, now>>
    /\ UNCHANGED outside_discord

\* the wait of a call returns: the tool is awaited
wait_for_ready(r) ==
    /\ tool_calls[r].pc = "waiting"
    /\ discord_ready
    /\ tool_calls' = [tool_calls EXCEPT ![r].pc = "executing", ![r].ran = TRUE]
    /\ UNCHANGED <<discord_server, discord_client, discord_ready, run_pc, now>>
    /\ UNCHANGED outside_discord

\* the wait of a call times out: asyncio.TimeoutError, caught, becomes the
\* result (CallToolResult(isError=True) in mcp_server.py, the text alone in
\* the FastMCP tools)
wait_for_timeout(r) ==
    /\ tool_calls[r].pc = "waiting"
    /\ now >= tool_calls[r].deadline
    /\ tool_calls' = [tool_calls EXCEPT ![r].pc = "returned",
                                        ![r].text = TimeoutText,
                                        ![r].isError = (discord_server = "mcp_server")]
    /\ UNCHANGED <<discord_server, discord_client, discord_ready, run_pc, now>>
    /\ UNCHANGED outside_discord

\* the tool returns its text
tool_returns(r) ==
    /\ tool_calls[r].pc = "executing"
    /\ tool_calls' = [tool_calls EXCEPT ![r].pc = "returned",
                                        ![r].text = "tool result"]
    /\ UNCHANGED <<discord_server, discord_client, discord_ready, run_pc, now>>
    /\ UNCHANGED outside_discord

\* the result is sent; the slot takes the next request
call_done(r) ==
    /\ tool_calls[r].pc = "returned"
    /\ tool_calls' = [tool_calls EXCEPT ![r] = NoToolCall]
    /\ UNCHANGED <<discord_server, discord_client, discord_ready, run_pc, now>>
    /\ UNCHANGED outside_discord

\* Time passes, when no wait is due to time out.
tick ==
    /\ now + TickSeconds <= MaxTime
    /\ ~(run_pc.pc = "waiting" /\ now >= run_pc.deadline)
    /\ \A r \in Slots : ~(tool_calls[r].pc = "waiting" /\ now >= tool_calls[r].deadline)
    /\ now' = now + TickSeconds
    /\ UNCHANGED <<discord_server, discord_client, discord_ready, run_pc, tool_calls>>
    /\ UNCHANGED outside_discord

Init ==
    /\ users = UsersFile
    /\ meetings = <<>>
    /\ intact = TRUE
    /\ creating = [c \in Threads |-> Idle]
    /\ call = NoCall
    /\ result = NoResult
    /\ storage = _create_empty_storage
    /\ storage_call = NoStorageCall
    /\ documents_db = <<>>
    /\ vectorstore = {}
    /\ rag_call = NoRagCall
    /\ discord_server = "none"
    /\ discord_client = "idle"
    /\ discord_ready = FALSE
    /\ run_pc = [pc |-> "none", deadline |-> 0]
    /\ now = 0
    /\ tool_calls = [r \in Slots |-> NoToolCall]

\* MCPToolRegistry.execute_tool: tool_func(**tool_args), for the arguments the
\* tool calls of a request carry; a call is made when the one before it has
\* returned.
\* The create_meeting calls made: an hour for Alice at each start, an hour at
\* 10:00 that lists her by id, and a meeting of no duration at 07:00.
CreateRequests ==
    {r \in [title : CreateTitles, participants : CreateParticipants,
            duration : CreateDurations, start_time : CreateStarts] :
        \/ r.participants = <<"Alice">> /\ r.duration = 60
        \/ r.participants = <<"u1">> /\ r.duration = 60 /\ r.start_time = At(0, 10, 0)
        \/ r.participants = <<"Alice">> /\ r.duration = 0 /\ r.start_time = At(0, 7, 0)}

execute_tool_create_meeting ==
    /\ result = NoResult
    /\ \E r \in CreateRequests :
          create_meeting(r.title, r.participants, r.duration, r.start_time)

execute_tool_find_optimal_slots ==
    /\ result = NoResult
    /\ \E participants \in FindParticipants, duration \in FindDurations,
          date_range \in FindDateRanges :
          find_optimal_slots(participants, duration, date_range)

execute_tool_detect_scheduling_conflicts ==
    /\ result = NoResult
    /\ \E user_id \in DetectUsers, time_range \in DetectTimeRanges :
          detect_scheduling_conflicts(user_id, time_range)

Next ==
    \/ execute_tool_create_meeting
    \/ execute_tool_find_optimal_slots
    \/ execute_tool_detect_scheduling_conflicts
    \/ Return

Spec == Init /\ [][Next]_vars

\* The threaded bridge: each request runs its tool call in a thread of its own,
\* so the steps of the create_meeting calls interleave with each other and
\* with the find and detect calls, which load the files in one read each.
ThreadedCreateStarts == {At(0, 10, 0), At(0, 10, 30)}
ThreadedFindParticipants == {<<"Alice">>, <<"Carol">>}
ThreadedFindDurations == {30, 600}
ThreadedFindDateRanges == {DateRange(0, 0), MalformedRange}
ThreadedDetectUsers == {"u1", "Carol"}
ThreadedDetectTimeRanges == {TimeRange(At(0, 0, 0), At(0, 23, 59)), MalformedTimeRange}

NextThreaded ==
    \/ \E c \in Threads, start_time \in ThreadedCreateStarts :
          create_load(c, "Sync", <<"Alice">>, 60, start_time)
    \/ \E c \in Threads : create_open(c)
    \/ \E c \in Threads : create_dump(c)
    \/ \E c \in Threads : create_return(c)
    \/ \E participants \in ThreadedFindParticipants, duration \in ThreadedFindDurations,
          date_range \in ThreadedFindDateRanges :
          find_optimal_slots(participants, duration, date_range)
    \/ \E user_id \in ThreadedDetectUsers, time_range \in ThreadedDetectTimeRanges :
          detect_scheduling_conflicts(user_id, time_range)
    \/ Return

SpecThreaded == Init /\ [][NextThreaded]_vars

\* ------------------------------------------------------------ properties
FindReturned == result.tool = "find_optimal_slots"
FindSucceeded == FindReturned /\ result.success = "true"
DetectSucceeded == result.tool = "detect_scheduling_conflicts" /\ result.success = "true"

\* The score the loops gave the slot a recommendation proposes.
ScoredAt(start) == CHOOSE s \in {result.scored[k] : k \in 1..Len(result.scored)} :
                       s.start = start
RecScore(rec) == ScoredAt(rec.start).score

\* C1: find_optimal_slots returns at most 5 recommendations, the k-th of them
\* has rank k, each proposes a slot the loops scored, and the conflict scores
\* of the recommended slots never decrease as the rank grows.
C1_AtMostFiveRankedByScore ==
    FindReturned =>
        LET recs == result.recommendations
        IN  /\ Len(recs) <= 5
            /\ \A i \in 1..Len(recs) :
                  /\ recs[i].rank = i
                  /\ \E k \in 1..Len(result.scored) :
                        /\ result.scored[k].start = recs[i].start
                        /\ result.scored[k].end = recs[i].end
            /\ \A i, j \in 1..Len(recs) : i < j => RecScore(recs[i]) <= RecScore(recs[j])

\* More than five slots survive, five are returned, and both scores occur
\* among them.
C1_Witness ==
    /\ FindSucceeded
    /\ Len(result.optimal_slots) > 5
    /\ Len(result.recommendations) = 5
    /\ RecScore(result.recommendations[1]) = 0
    /\ RecScore(result.recommendations[5]) = 5

\* C2: no recommendation of find_optimal_slots starts on a Saturday (weekday 5)
\* or a Sunday (weekday 6).
C2_NoWeekendSlot ==
    FindReturned =>
        \A i \in 1..Len(result.recommendations) :
            (DateOf(result.recommendations[i].start) + 4) % 7 \notin {5, 6}

\* A date range that holds a Saturday and a Sunday, with recommendations.
C2_Witness ==
    /\ FindSucceeded
    /\ \E d \in result.search_criteria.date_range[1]..result.search_criteria.date_range[2] :
          Weekday(d) = 5
    /\ \E d \in result.search_criteria.date_range[1]..result.search_criteria.date_range[2] :
          Weekday(d) = 6
    /\ Len(result.recommendations) > 0

\* C3: for a positive duration no recommendation of find_optimal_slots ends
\* later than 17:00 of the day on which its slot starts.
C3_EndsBy1700 ==
    (FindReturned /\ result.search_criteria.duration > 0) =>
        \A i \in 1..Len(result.recommendations) :
            result.recommendations[i].end
                <= DateOf(result.recommendations[i].start) * 1440 + 17 * 60

AllClear(details) ==
    \A k \in 1..Len(details) : details[k].available /\ details[k].in_work_hours

\* C4: every slot find_optimal_slots scores 0 has, for every participant, an
\* availability record with available and in_work_hours both true; so has the
\* slot of every recommendation of confidence High.
C4_ZeroScoreAllClear ==
    FindReturned =>
        /\ \A k \in 1..Len(result.scored) :
              result.scored[k].score = 0 => AllClear(result.scored[k].availability_details)
        /\ \A i \in 1..Len(result.recommendations) :
              result.recommendations[i].confidence = "High"
                  => AllClear(ScoredAt(result.recommendations[i].start).availability_details)

\* Two participants: a High recommendation, and a scored slot that is not clear.
C4_Witness ==
    /\ FindSucceeded
    /\ Len(result.search_criteria.participants) = 2
    /\ \E i \in 1..Len(result.recommendations) : result.recommendations[i].confidence = "High"
    /\ \E k \in 1..Len(result.scored) : ~AllClear(result.scored[k].availability_details)

\* The known users a requested participant resolves to, by lower-cased name.
ResolvesTo(participant) ==
    {users[k] : k \in {n \in 1..Len(users) : Lower(users[n].name) = Lower(participant)}}

\* C5: no recommendation of find_optimal_slots overlaps a meeting of the
\* meetings collection that names, by name or by id, a known user one of the
\* requested participants resolves to.
C5_NoRecommendationOverBusyParticipant ==
    FindReturned =>
        \A i \in 1..Len(result.recommendations) :
            \A p \in 1..Len(result.search_criteria.participants) :
                \A u \in ResolvesTo(result.search_criteria.participants[p]) :
                    \A m \in 1..Len(meetings) :
                        (In(u.name, meetings[m].participants)
                         \/ In(u.id, meetings[m].participants))
                            => ~(/\ result.recommendations[i].start < meetings[m].end
                                 /\ result.recommendations[i].end > meetings[m].start)

Discarded(slot) ==
    ~\E j \in 1..Len(result.optimal_slots) : result.optimal_slots[j].start = slot.start

\* C6: a slot find_optimal_slots scored is discarded if and only if at least
\* one participant is unavailable for it.
C6_DiscardedIffSomeoneUnavailable ==
    FindSucceeded =>
        \A k \in 1..Len(result.scored) :
            Discarded(result.scored[k])
                <=> \E d \in 1..Len(result.scored[k].availability_details) :
                        ~result.scored[k].availability_details[d].available

\* The meetings of the collection that name the user of a report and overlap
\* its time range.
InWindow ==
    {k \in 1..Len(meetings) :
        /\ In(result.user.id, meetings[k].participants)
           \/ In(result.user.name, meetings[k].participants)
        /\ meetings[k].start < result.time_range.end
        /\ meetings[k].end > result.time_range.start}

OverlapConflictsOf(a, b) ==
    {c \in 1..Len(result.conflicts) :
        /\ result.conflicts[c].type = "overlapping_meetings"
        /\ result.conflicts[c].meeting1.id = a.id
        /\ result.conflicts[c].meeting2.id = b.id}

\* C7: a report of detect_scheduling_conflicts lists the user's in-window
\* meetings, and holds exactly one overlapping_meetings conflict, of severity
\* high, for each pair (i < j) of them with start_i < end_j and end_i > start_j,
\* none for any other pair or order, and the conflict's
\* overlap_duration_minutes is min(ends) - max(starts); with such a conflict
\* the status is critical.
C7_OneConflictPerOverlappingPair ==
    DetectSucceeded =>
        /\ {result.meetings[k].meeting_id : k \in 1..Len(result.meetings)}
               = {meetings[k].id : k \in InWindow}
        /\ \A i, j \in InWindow :
              LET a == meetings[i]
                  b == meetings[j]
                  found == OverlapConflictsOf(a, b)
              IN  IF i < j /\ a.start < b.end /\ a.end > b.start
                  THEN /\ Cardinality(found) = 1
                       /\ \A c \in found :
                             /\ result.conflicts[c].severity = "high"
                             /\ result.conflicts[c].overlap_duration_minutes
                                    = Min2(a.end, b.end) - Max2(a.start, b.start)
                       /\ result.insights.status = "critical"
                  ELSE found = {}
        /\ \A c \in 1..Len(result.conflicts) :
              result.conflicts[c].type = "overlapping_meetings"
                  => \E i, j \in InWindow :
                        /\ result.conflicts[c].meeting1.id = meetings[i].id
                        /\ result.conflicts[c].meeting2.id = meetings[j].id

\* Alice's meetings 10:00-11:00 and 10:30-11:30 in the window 00:00-23:59: one
\* overlapping_meetings conflict, of 30 minutes, and status critical.
C7_Witness ==
    /\ DetectSucceeded
    /\ result.time_range.start = At(0, 0, 0)
    /\ result.time_range.end = At(0, 23, 59)
    /\ Len(result.meetings) = 2
    /\ result.meetings[1].start = At(0, 10, 0) /\ result.meetings[1].end = At(0, 11, 0)
    /\ result.meetings[2].start = At(0, 10, 30) /\ result.meetings[2].end = At(0, 11, 30)
    /\ Cardinality({c \in 1..Len(result.conflicts) :
                       result.conflicts[c].type = "overlapping_meetings"}) = 1
    /\ result.conflicts[1].overlap_duration_minutes = 30
    /\ result.insights.status = "critical"

OutsideConflictsOf(a) ==
    {c \in 1..Len(result.conflicts) :
        /\ result.conflicts[c].type = "outside_work_hours"
        /\ result.conflicts[c].meeting.id = a.id}

OutsideWindow(t, lo, hi) == t % 1440 < lo \/ t % 1440 > hi

\* C8: for each in-window meeting of the user, detect_scheduling_conflicts
\* reports exactly one outside_work_hours conflict, of severity medium, if the
\* time of day of the meeting's start or of its end lies outside
\* [work_start, work_end], and none otherwise.
C8_OneOutsideConflictPerMeetingOutsideHours ==
    DetectSucceeded =>
        \A k \in InWindow :
            LET lo == ParseHM(result.user.work_hours[1])
                hi == ParseHM(result.user.work_hours[2])
                found == OutsideConflictsOf(meetings[k])
            IN  IF OutsideWindow(meetings[k].start, lo, hi)
                   \/ OutsideWindow(meetings[k].end, lo, hi)
                THEN /\ Cardinality(found) = 1
                     /\ \A c \in found : result.conflicts[c].severity = "medium"
                     /\ result.insights.status \in {"warning", "critical"}
                ELSE found = {}

\* C9: when the time range has start < end and every in-window meeting of the
\* user lies inside it, the meeting_load_percentage of the report is between 0
\* and 100 (0 and 1000 tenths); it is 0 when meetings_in_range is 0.
C9_LoadBetween0And100 ==
    (/\ DetectSucceeded
     /\ result.time_range.start < result.time_range.end
     /\ \A k \in InWindow : /\ meetings[k].start >= result.time_range.start
                            /\ meetings[k].end <= result.time_range.end)
        => /\ result.insights.meeting_load_percentage >= 0
           /\ result.insights.meeting_load_percentage <= 1000
           /\ result.meetings_in_range = 0 => result.insights.meeting_load_percentage = 0

\* C10: the overlap test of the two tools is symmetric on the meetings of the
\* collection, and every meeting overlaps an identical copy of itself.
C10_OverlapSymmetricAndReflexive ==
    \A a, b \in 1..Len(meetings) :
        /\ Overlaps(meetings[a].start, meetings[a].end, meetings[b].start, meetings[b].end)
               <=> Overlaps(meetings[b].start, meetings[b].end,
                            meetings[a].start, meetings[a].end)
        /\ Overlaps(meetings[a].start, meetings[a].end, meetings[a].start, meetings[a].end)

FindCalled == call.tool = "find_optimal_slots"
DetectCalled == call.tool = "detect_scheduling_conflicts"

\* C12: a detect_scheduling_conflicts call whose user_id is the id of no user
\* and, letter case aside, the name of no user returns the failure result
\* "User not found" (success false), whether or not its time_range parses;
\* it raises nothing.
C12_UnknownUserIsNotFoundFailure ==
    (/\ DetectCalled
     /\ \A i \in 1..Len(users) :
           users[i].id # call.user_id /\ Lower(users[i].name) # Lower(call.user_id))
    => /\ result.tool = "detect_scheduling_conflicts"
       /\ result.success = "false"
       /\ result.error = "User not found"

\* An unknown user asked about with a time_range that does not parse.
C12_Witness ==
    /\ DetectCalled
    /\ call.user_id = "Zed"
    /\ ~call.time_range.parses
    /\ result = user_not_found("Zed")

\* C13: every find_optimal_slots and detect_scheduling_conflicts call hands its
\* caller a value of the tool and never an exception, whatever the range
\* string, the user records and the state of the meetings file; a value that
\* is not a success carries a non-empty error text.
C13_NeverRaisesFailuresCarryText ==
    (FindCalled \/ DetectCalled)
    => /\ result.tool = call.tool
       /\ result.success \in {"true", "false", "absent"}
       /\ result.success # "true" => result.error # ""

\* A find_optimal_slots call that read the meetings file while a
\* create_meeting call had it truncated, and returned the failure.
C13_Witness ==
    /\ FindCalled
    /\ ~intact
    /\ call.date_range.parses
    /\ result.tool = "find_optimal_slots"
    /\ result.success = "false"
    /\ result.error = "Error finding optimal slots: Expecting value"

\* C14: a find_optimal_slots call whose date range parses and ends on an
\* earlier date than it starts returns an error result, not a success.
C14_InvertedDateRangeIsAnError ==
    (FindCalled /\ call.date_range.parses /\ call.date_range.end < call.date_range.start)
    => result.success # "true"

\* C15: a detect_scheduling_conflicts call whose time range parses and starts
\* later than it ends returns a failure result, not a success report.
C15_InvertedTimeRangeIsAFailure ==
    (DetectCalled /\ call.time_range.parses /\ call.time_range.start > call.time_range.end)
    => result.success = "false"

\* C16: a find_optimal_slots call with no participants and a date range that
\* parses returns no recommendations and a failure of the shape of the other
\* failures of the operation: success false and a non-empty error message.
C16_NoParticipantsIsAStructuredFailure ==
    (FindCalled /\ Len(call.participants) = 0 /\ call.date_range.parses)
    => /\ Len(result.recommendations) = 0
       /\ result.success = "false"
       /\ result.error # ""

MatchesNoUser(participant) ==
    \A i \in 1..Len(users) : Lower(users[i].name) # Lower(participant)

\* C17: a find_optimal_slots call with a date range that parses, a participant
\* that matches no user and no participant whose record lacks its work hours
\* returns a success; every slot it scored has, for each participant that
\* matches no user, the detail of a user of that name whose work hours are
\* 09:00-17:00, and every recommendation counts all the participants given.
C17_UnknownParticipantIsSyntheticUser ==
    (/\ FindCalled
     /\ call.date_range.parses
     /\ \E i \in 1..Len(call.participants) : MatchesNoUser(call.participants[i])
     /\ \A i \in 1..Len(call.participants) :
           ~check_user_availability_raises(ResolveParticipant(users, call.participants[i])))
    => /\ result.success = "true"
       /\ \A k \in 1..Len(result.scored) :
             LET slot == result.scored[k]
             IN  /\ Len(slot.availability_details) = Len(call.participants)
                 /\ \A i \in 1..Len(call.participants) :
                       MatchesNoUser(call.participants[i])
                       => /\ slot.availability_details[i].user = call.participants[i]
                          /\ slot.availability_details[i].in_work_hours
                                 = (/\ TimeOfDay(slot.start) >= 9 * 60
                                    /\ TimeOfDay(slot.end) <= 17 * 60)
       /\ \A r \in 1..Len(result.recommendations) :
             result.recommendations[r].total_participants = Len(call.participants)

\* A call for Alice and the unknown "Zed" that scored a slot inside
\* 09:00-17:00 and one that ends after 17:00, and returned recommendations
\* that count two participants.
C17_Witness ==
    /\ FindCalled
    /\ call.participants = <<"Alice", "Zed">>
    /\ result.success = "true"
    /\ Len(result.recommendations) > 0
    /\ result.recommendations[1].total_participants = 2
    /\ \E k \in 1..Len(result.scored) : result.scored[k].availability_details[2].in_work_hours
    /\ \E k \in 1..Len(result.scored) : ~result.scored[k].availability_details[2].in_work_hours

\* C18: in every slot find_optimal_slots scored that ends on a later date than
\* it starts, check_user_availability found no participant in work hours.
C18_SlotIntoNextDayNeverInWorkHours ==
    FindReturned =>
        \A k \in 1..Len(result.scored) :
            DateOf(result.scored[k].end) > DateOf(result.scored[k].start)
            => \A i \in 1..Len(result.scored[k].availability_details) :
                   ~result.scored[k].availability_details[i].in_work_hours

\* C19: check_user_availability raises no error for a user whose record has no
\* work hours, so no find_optimal_slots call fails with the missing key; for
\* such a user every scored slot that ends on the date it starts is in work
\* hours; and where no meeting of the collection names the user, the detail
\* has no conflicts and says available.
C19_NoWorkHoursMeansFullDay ==
    FindCalled =>
        /\ result.tool = "find_optimal_slots"
        /\ result.error # "Error finding optimal slots: 'work_hours'"
        /\ \A k \in 1..Len(result.scored), i \in 1..Len(call.participants) :
              LET slot == result.scored[k]
                  user == ResolveParticipant(users, call.participants[i])
              IN  /\ (check_user_availability_raises(user)
                       /\ DateOf(slot.end) = DateOf(slot.start))
                      => slot.availability_details[i].in_work_hours
                  /\ (\A m \in 1..Len(meetings) :
                          /\ ~In(user.name, meetings[m].participants)
                          /\ ~In(user.id, meetings[m].participants))
                      => /\ slot.availability_details[i].available
                         /\ slot.availability_details[i].conflicts = <<>>

\* The value the call in flight returns on the complete collection ms.
CallAlone(ms) ==
    IF FindCalled
    THEN find_optimal_slots_except(
             find_optimal_slots_try(users, ms, TRUE, call.participants,
                                    call.duration, call.date_range),
             call.participants, call.duration)
    ELSE detect_scheduling_conflicts_except(
             detect_scheduling_conflicts_try(users, ms, TRUE, call.user_id,
                                             call.time_range))

Prefixes(ms) == {SubSeq(ms, 1, n) : n \in 0..Len(ms)}

\* The complete collections the file has held or is about to hold: the file
\* only grows by appends, so they are the beginnings of what it holds and of
\* what the create_meeting calls in progress are writing.
CompleteCollections ==
    (IF intact THEN Prefixes(meetings) ELSE {})
    \cup UNION {Prefixes(Append(creating[c].base, creating[c].new)) :
                   c \in {d \in Threads : creating[d].pc \in {"loaded", "opened"}}}

\* C20: every find_optimal_slots and detect_scheduling_conflicts call that runs
\* among the steps of create_meeting calls returns the value it returns alone
\* on a complete meetings collection, as the file held it before or after a
\* write: never a failure of the read, never a value of a partial file.
C20_ConcurrentReadSeesCompleteCollection ==
    (FindCalled \/ DetectCalled)
    => \E ms \in CompleteCollections : result = CallAlone(ms)

\* C21: a step in which find_optimal_slots or detect_scheduling_conflicts runs,
\* to a success or to a failure, leaves the users collection and the meetings
\* collection as they were.
C21_FindAndDetectOnlyRead ==
    [][(/\ result = NoResult
        /\ call'.tool \in {"find_optimal_slots", "detect_scheduling_conflicts"})
       => (users' = users /\ meetings' = meetings)]_vars

\* A find_optimal_slots call that failed while the collection held meetings.
C21_Witness ==
    /\ FindCalled
    /\ result.success = "false"
    /\ Len(meetings) > 0

\* C22: every meeting of the collection ends after it starts, whatever
\* create_meeting calls were made.
C22_EveryMeetingEndsAfterItStarts ==
    \A m \in 1..Len(meetings) : meetings[m].end > meetings[m].start

\* The slots of the result that survived the discard, and the order the claim
\* gives them: by score, then by date and hour (the start).
Surviving == {result.scored[k] : k \in {n \in 1..Len(result.scored) :
                                             result.scored[n].score < DiscardThreshold}}
Before(a, b) == a.score < b.score \/ (a.score = b.score /\ a.start < b.start)

HighCount == Cardinality({i \in 1..Len(result.conflicts) :
                             result.conflicts[i].severity = "high"})
MediumCount == Cardinality({i \in 1..Len(result.conflicts) :
                               result.conflicts[i].severity = "medium"})
LooksGood ==
    \E i \in 1..Len(result.insights.recommendations) :
        result.insights.recommendations[i] = "No conflicts detected - schedule looks good!"

\* C24: in every success report of detect_scheduling_conflicts the status is
\* critical iff a high-severity conflict is listed, warning iff none is and a
\* medium-severity one is, good iff the list is empty; conflicts_found is the
\* high count plus the medium count; the "schedule looks good" recommendation
\* is given iff the status is good.
C24_StatusFollowsSeverities ==
    DetectSucceeded =>
        /\ result.insights.status = "critical" <=> HighCount > 0
        /\ result.insights.status = "warning" <=> (HighCount = 0 /\ MediumCount > 0)
        /\ result.insights.status = "good" <=> Len(result.conflicts) = 0
        /\ result.conflicts_found = HighCount + MediumCount
        /\ LooksGood <=> result.insights.status = "good"

\* A report with a medium-severity conflict and no high-severity one.
C24_Witness ==
    /\ DetectSucceeded
    /\ HighCount = 0
    /\ MediumCount > 0
    /\ result.insights.status = "warning"

\* C25: a create_meeting call leaves every stored meeting in place: when it
\* overwrites the whole file, the collection it is about to write (the one it
\* loaded, with its record after it) begins with the meetings the file holds.
C25_CreateKeepsStoredMeetings ==
    [][\A c \in Threads :
          (/\ intact
           /\ creating[c].pc = "loaded"
           /\ creating'[c].pc = "opened")
          => /\ Len(meetings) <= Len(creating[c].base)
             /\ SubSeq(creating[c].base, 1, Len(meetings)) = meetings]_vars

\* C26: when the create_meeting calls of both threads have returned their
\* message, the meetings file is whole and holds the record of each.
C26_NoCreationLost ==
    (\A c \in Threads : creating[c].pc = "returned")
    => /\ intact
       /\ \E i, j \in 1..Len(meetings) :
             /\ i # j
             /\ meetings[i].start = creating["t1"].new.start
             /\ meetings[j].start = creating["t2"].new.start

\* ------------------------------------------------ DocumentStorage, in sequence
StorageAdd == \E document \in Documents : add_document(document)
StorageUpdate == \E document \in Documents : update_document(document)
StorageDelete == \E document_id \in DocumentIds : delete_document(document_id)

NextStorage ==
    \/ StorageAdd
    \/ StorageUpdate
    \/ StorageDelete

SpecStorage == Init /\ [][NextStorage]_vars

DistinctIds ==
    \A i, j \in 1..Len(storage.documents) :
        i # j => storage.documents[i].id # storage.documents[j].id

\* C27: after any sequence of add_document, update_document and
\* delete_document calls the stored documents have pairwise distinct ids and
\* metadata.total_documents is their number; an add_document whose id is
\* stored returns False and leaves the stored documents as they were.
C27_DistinctIdsAndCount ==
    /\ [](/\ DistinctIds
          /\ storage.metadata.total_documents = Len(storage.documents))
    /\ [][(/\ storage_call'.op = "add_document"
            /\ storage_call'.id \in existing_ids(storage))
           => (/\ storage_call'.returned = FALSE
               /\ storage'.documents = storage.documents)]_vars

\* An add_document turned down for its id, with three documents stored of
\* which one was updated to the other title.
C27_Witness ==
    /\ storage_call.op = "add_document"
    /\ storage_call.returned = FALSE
    /\ storage.metadata.total_documents = 3
    /\ \E i, j \in 1..3 : storage.documents[i].title # storage.documents[j].title

\* ------------------------------------- the ticketing backend's scripts, in sequence
RagInsert ==
    \E docs \in LoaderDocs, category \in Categories : insert_documents(docs, category)
RagVectorize == \E embedded \in BOOLEAN : vectorize_documents(embedded)

NextRag ==
    \/ RagInsert
    \/ RagVectorize

SpecRag == Init /\ [][NextRag]_vars

\* C29: when vectorize_documents has returned, none of the documents that were
\* unvectorized when it started is returned by get_unvectorized_documents:
\* each has is_vectorized = True in the table.
C29_VectorizedDocumentsAreMarked ==
    rag_call.op = "vectorize_documents"
    => rag_call.raw_docs \cap get_unvectorized_documents(documents_db) = {}

\* C30: an insert_documents call adds one row per element of docs, each with
\* is_vectorized = False; with no element it adds no row.
C30_OneRowPerDocument ==
    [][rag_call'.op = "insert_documents"
       => /\ Len(documents_db') = Len(documents_db) + Len(rag_call'.docs)
          /\ SubSeq(documents_db', 1, Len(documents_db)) = documents_db
          /\ \A i \in (Len(documents_db) + 1)..Len(documents_db') :
                /\ ~documents_db'[i].is_vectorized
                /\ documents_db'[i].source = rag_call'.docs[i - Len(documents_db)]]_vars

\* ------------------------------------------------- the Discord MCP servers
DiscordCall == \E r \in Slots, name \in ToolNames : call_tool(r, name)
DiscordWaitReady == \E r \in Slots : wait_for_ready(r)
DiscordWaitTimeout == \E r \in Slots : wait_for_timeout(r)
DiscordToolReturns == \E r \in Slots : tool_returns(r)
DiscordCallDone == \E r \in Slots : call_done(r)

NextDiscord ==
    \/ run
    \/ run_ready
    \/ run_timeout
    \/ fastmcp_main
    \/ on_ready
    \/ start_fails
    \/ DiscordCall
    \/ DiscordWaitReady
    \/ DiscordWaitTimeout
    \/ DiscordToolReturns
    \/ DiscordCallDone
    \/ tick

SpecDiscord == Init /\ [][NextDiscord]_vars

\* C28: a tool (send_message, get_messages, get_channel_info, list_channels)
\* is awaited only when the ready event is set; a call made before waits, and
\* has not run its tool while it waits; a call that returns the timeout error
\* has waited the 30 seconds, is an error result and has not run its tool.
C28_NoToolBeforeReady ==
    \A r \in Slots :
        /\ tool_calls[r].ran => discord_ready
        /\ tool_calls[r].pc = "executing" => tool_calls[r].ran
        /\ tool_calls[r].pc = "waiting" => ~tool_calls[r].ran
        /\ (tool_calls[r].pc = "returned" /\ ~tool_calls[r].ran)
           => /\ tool_calls[r].text = TimeoutText
              /\ now >= tool_calls[r].deadline
              /\ discord_server = "mcp_server" => tool_calls[r].isError
        /\ (tool_calls[r].pc = "returned" /\ tool_calls[r].ran)
           => tool_calls[r].text # TimeoutText

\* A call waited the 30 seconds and returned the timeout error; then the
\* client connected, and a call that had arrived later and was still waiting
\* ran its tool.
C28_Witness ==
    /\ tool_calls["r1"].pc = "returned"
    /\ tool_calls["r1"].text = TimeoutText
    /\ ~tool_calls["r1"].ran
    /\ tool_calls["r2"].pc = "executing"
    /\ tool_calls["r2"].deadline > tool_calls["r1"].deadline
    /\ discord_ready
====
